---- MODULE Spec2Model ----
(***************************************************************************)
(* Model of scripts/check_review.py: the documentation freshness checker.  *)
(*                                                                         *)
(* Text is a sequence of characters (one-character strings).  Characters   *)
(* outside ASCII are written by their code point: "U+4F5C" "U+6210"        *)
(* "U+65E5" are the three characters of the Japanese label, "U+FF1A" the   *)
(* full-width colon, "U+5E74" / "U+6708" / "U+65E5" the year / month / day *)
(* suffixes.  A datetime is a record [ticks, aware]: ticks counted from    *)
(* 0001-01-01T00:00 in units of 1/TicksPerDay day, aware = has a tzinfo.   *)
(***************************************************************************)
EXTENDS Integers, Sequences, FiniteSets, TLC

VARIABLES fs, now, pc, i, stale, last, out, exitStatus, err,
          checked, reads, stats, lastOf, visited

vars == <<fs, now, pc, i, stale, last, out, exitStatus, err,
          checked, reads, stats, lastOf, visited>>

(* ---------------------------------------------------------------------- *)
(* Bounds of the model                                                    *)
(* ---------------------------------------------------------------------- *)
\* resolution of the clock: ticks per day
TicksPerDay == 2
\* the run starts at 2024-01-10T00:00Z plus 0..NowSpan ticks
NowSpan == 1

(* ---------------------------------------------------------------------- *)
(* Program constants                                                      *)
(* ---------------------------------------------------------------------- *)
TARGETS == <<".github/copilot-instructions.md", "docs/operation-scenarios.md">>

MAX_AGE_DAYS == 7

\* the two alternatives of group 1 of ISO_PATTERN, in the order written
LABEL_JA == <<"U+4F5C", "U+6210", "U+65E5">>
LABEL_EN == <<"L", "a", "s", "t", " ", "U", "p", "d", "a", "t", "e", "d">>

(* ---------------------------------------------------------------------- *)
(* Regular expression ISO_PATTERN                                         *)
(* ---------------------------------------------------------------------- *)
NoMatch == <<>>

IsSpace(c) == c \in {" ", "\t", "\n"}

IsDigit(c) == c \in {"0", "1", "2", "3", "4", "5", "6", "7", "8", "9"}

DigitVal(c) ==
    CASE c = "0" -> 0 [] c = "1" -> 1 [] c = "2" -> 2 [] c = "3" -> 3
      [] c = "4" -> 4 [] c = "5" -> 5 [] c = "6" -> 6 [] c = "7" -> 7
      [] c = "8" -> 8 [] c = "9" -> 9

\* the literal lit occurs in text starting at position p
HasPrefixAt(text, p, lit) ==
    /\ p + Len(lit) - 1 <= Len(text)
    /\ \A k \in 1..Len(lit) : text[p + k - 1] = lit[k]

\* group 1, (A|B): position after the label matched at p, 0 when none
LabelEnd(text, p) ==
    IF HasPrefixAt(text, p, LABEL_JA) THEN p + Len(LABEL_JA)
    ELSE IF HasPrefixAt(text, p, LABEL_EN) THEN p + Len(LABEL_EN)
    ELSE 0

\* \s* : first position at or after p that holds no whitespace
RECURSIVE SkipSpaces(_, _)
SkipSpaces(text, p) ==
    IF p <= Len(text) /\ IsSpace(text[p]) THEN SkipSpaces(text, p + 1) ELSE p

\* [:U+FF1A]
IsColon(c) == c \in {":", "U+FF1A"}

\* group 2, \d{4}[-U+5E74]\d{2}[-U+6708]\d{2}, matched at p
DateTokenAt(text, p) ==
    /\ p + 9 <= Len(text)
    /\ \A k \in {0, 1, 2, 3, 5, 6, 8, 9} : IsDigit(text[p + k])
    /\ text[p + 4] \in {"-", "U+5E74"}
    /\ text[p + 7] \in {"-", "U+6708"}

\* group 2 of the match of ISO_PATTERN anchored at p, NoMatch when none
MatchAt(text, p) ==
    LET e == LabelEnd(text, p) IN
    IF e = 0 THEN NoMatch
    ELSE LET c == SkipSpaces(text, e) IN
         IF ~(c <= Len(text) /\ IsColon(text[c])) THEN NoMatch
         ELSE LET d == SkipSpaces(text, c + 1) IN
              IF DateTokenAt(text, d) THEN SubSeq(text, d, d + 9) ELSE NoMatch

\* ISO_PATTERN.search(text): the leftmost match
RECURSIVE SearchFrom(_, _)
SearchFrom(text, p) ==
    IF p > Len(text) THEN NoMatch
    ELSE IF MatchAt(text, p) # NoMatch THEN MatchAt(text, p)
    ELSE SearchFrom(text, p + 1)

\* mutant of Search: the rightmost match
RECURSIVE SearchBack(_, _)
SearchBack(text, p) ==
    IF p < 1 THEN NoMatch
    ELSE IF MatchAt(text, p) # NoMatch THEN MatchAt(text, p)
    ELSE SearchBack(text, p - 1)

Search_Last(text) == SearchBack(text, Len(text))

Search(text) == SearchFrom(text, 1)

(* ---------------------------------------------------------------------- *)
(* str.replace and datetime                                               *)
(* ---------------------------------------------------------------------- *)
\* raw.replace(old, new) for a one-character old
RECURSIVE Replace(_, _, _)
Replace(raw, old, new) ==
    IF raw = <<>> THEN <<>>
    ELSE (IF Head(raw) = old THEN new ELSE <<Head(raw)>>)
         \o Replace(Tail(raw), old, new)

\* mutant of Normalize: the month suffix is not replaced
Normalize_NoMonth(raw) ==
    Replace(Replace(raw, "U+5E74", <<"-">>), "U+65E5", <<>>)

Normalize(raw) ==
    Replace(Replace(Replace(raw, "U+5E74", <<"-">>), "U+6708", <<"-">>),
            "U+65E5", <<>>)

IsLeap(y) == y % 4 = 0 /\ (y % 100 # 0 \/ y % 400 = 0)

DaysInMonth(y, m) ==
    IF m = 2 THEN (IF IsLeap(y) THEN 29 ELSE 28)
    ELSE IF m \in {4, 6, 9, 11} THEN 30 ELSE 31

RECURSIVE DaysBeforeMonth(_, _)
DaysBeforeMonth(y, m) ==
    IF m = 1 THEN 0 ELSE DaysBeforeMonth(y, m - 1) + DaysInMonth(y, m - 1)

\* date(y, m, d).toordinal(): 0001-01-01 is day 1
ToOrdinal(y, m, d) ==
    (y - 1) * 365 + ((y - 1) \div 4) - ((y - 1) \div 100) + ((y - 1) \div 400)
    + DaysBeforeMonth(y, m) + d

Midnight(y, m, d) == (ToOrdinal(y, m, d) - 1) * TicksPerDay

ParseError == [error |-> "ValueError"]

IsDateTime(r) == "ticks" \in DOMAIN r

\* datetime.fromisoformat(raw) for a ten-character raw: a naive datetime at
\* midnight, or ValueError
FromIsoFormat(raw) ==
    IF ~(/\ Len(raw) = 10
         /\ \A k \in {1, 2, 3, 4, 6, 7, 9, 10} : IsDigit(raw[k])
         /\ raw[5] = "-" /\ raw[8] = "-")
    THEN ParseError
    ELSE LET y == DigitVal(raw[1]) * 1000 + DigitVal(raw[2]) * 100
                  + DigitVal(raw[3]) * 10 + DigitVal(raw[4])
             m == DigitVal(raw[6]) * 10 + DigitVal(raw[7])
             d == DigitVal(raw[9]) * 10 + DigitVal(raw[10])
         IN IF /\ y >= 1
               /\ m >= 1 /\ m <= 12
               /\ d >= 1 /\ d <= DaysInMonth(y, m)
            THEN [ticks |-> Midnight(y, m, d), aware |-> FALSE]
            ELSE ParseError

\* datetime.fromtimestamp(st_mtime, tz=timezone.utc); st_mtime in ticks
\* since 1970-01-01T00:00Z
FromTimestamp(mtime) == [ticks |-> Midnight(1970, 1, 1) + mtime, aware |-> TRUE]

(* ---------------------------------------------------------------------- *)
(* get_last_updated                                                       *)
(* ---------------------------------------------------------------------- *)
\* lines 20-28: the datetime returned at line 26, or ParseError when the
\* function falls through to the mtime fallback
Marker(text) ==
    LET m == Search(text) IN
    IF m = NoMatch THEN ParseError
    ELSE FromIsoFormat(Normalize(m))

\* lines 17-30 on a readable file f that stays in place
GetLastUpdated(f) ==
    IF IsDateTime(Marker(f.text)) THEN Marker(f.text)
    ELSE FromTimestamp(f.mtime)

\* outcome of p.read_text(encoding='utf-8') on a file
ReadError(f) ==
    IF ~f.exists THEN "FileNotFoundError"
    ELSE IF f.mode = "noperm" THEN "PermissionError"
    ELSE IF f.mode = "badutf8" THEN "UnicodeDecodeError"
    ELSE "none"

(* ---------------------------------------------------------------------- *)
(* Inputs: file contents, modification times, clock                       *)
(* ---------------------------------------------------------------------- *)
DigitChar(n) ==
    CASE n = 0 -> "0" [] n = 1 -> "1" [] n = 2 -> "2" [] n = 3 -> "3"
      [] n = 4 -> "4" [] n = 5 -> "5" [] n = 6 -> "6" [] n = 7 -> "7"
      [] n = 8 -> "8" [] n = 9 -> "9"

Year4(y) == <<DigitChar(y \div 1000), DigitChar((y \div 100) % 10),
              DigitChar((y \div 10) % 10), DigitChar(y % 10)>>

Two(n) == <<DigitChar(n \div 10), DigitChar(n % 10)>>

\* YYYY-MM-DD
IsoToken(d) == Year4(d[1]) \o <<"-">> \o Two(d[2]) \o <<"-">> \o Two(d[3])

\* YYYY(U+5E74)MM(U+6708)DD(U+65E5)
JaToken(d) ==
    Year4(d[1]) \o <<"U+5E74">> \o Two(d[2]) \o <<"U+6708">> \o Two(d[3])
    \o <<"U+65E5">>

\* a label the pattern does not list
LABEL_CREATED == <<"C", "r", "e", "a", "t", "e", "d">>

\* calendar dates: 9 days old, exactly 7 days old at the earliest clock
\* value, 2 days in the future
ValidDates == {<<2024, 1, 1>>, <<2024, 1, 3>>, <<2024, 1, 12>>}

\* tokens that match the pattern and are no calendar dates
InvalidDates == {<<2024, 13, 40>>, <<9999, 99, 99>>, <<2023, 2, 29>>}

Dates == ValidDates \cup InvalidDates

Prose == <<"#", " ", "d", "o", "c", "\n">>

IsoText(l, d) == Prose \o l \o <<":", " ">> \o IsoToken(d) \o <<"\n">>

JaText(l, d) == Prose \o l \o <<" ", "U+FF1A">> \o JaToken(d) \o <<"\n">>

\* a label with no date after it, then a dated one
LabelOnlyText(d, e) ==
    LABEL_EN \o <<":", " ", "t", "b", "d", "\n">> \o IsoText(LABEL_EN, d)
    \o JaText(LABEL_JA, e)

\* two markers: d first, e second
TwoText(d, e) == IsoText(LABEL_EN, d) \o JaText(LABEL_JA, e)

\* one marker: both recognised labels in both separator styles
MarkerTexts(d) ==
    {IsoText(LABEL_JA, d), IsoText(LABEL_EN, d),
     JaText(LABEL_JA, d), JaText(LABEL_EN, d)}

\* the English word "Created" in front of a date
CreatedTexts ==
    {IsoText(LABEL_CREATED, d) : d \in ValidDates}
    \cup {JaText(LABEL_CREATED, <<2024, 1, 1>>)}

SingleTexts ==
    UNION {MarkerTexts(d) : d \in ValidDates}
    \cup {IsoText(LABEL_EN, d) : d \in InvalidDates}
    \cup {JaText(LABEL_JA, d) : d \in InvalidDates}
    \cup CreatedTexts

MultiTexts ==
    {TwoText(<<2024, 1, 12>>, <<2024, 1, 1>>),
     TwoText(<<2024, 1, 1>>, <<2024, 1, 12>>),
     TwoText(<<2024, 13, 40>>, <<2024, 1, 12>>),
     TwoText(<<2023, 2, 29>>, <<2024, 1, 1>>),
     LabelOnlyText(<<2024, 1, 1>>, <<2024, 1, 12>>)}

Texts == {Prose} \cup SingleTexts \cup MultiTexts

EpochDay == ToOrdinal(1970, 1, 1)

\* st_mtime one tick after 2024-01-02T00:00Z (stale) and one tick after
\* 2024-01-03T00:00Z (at most 7 days before the first two clock values)
Mtimes ==
    {(ToOrdinal(2024, 1, 2) - EpochDay) * TicksPerDay + 1,
     (ToOrdinal(2024, 1, 3) - EpochDay) * TicksPerDay + 1}

Files ==
    {[exists |-> FALSE, mode |-> "ok", text |-> <<>>, mtime |-> 0]}
    \cup [exists : {TRUE}, mode : {"noperm", "badutf8"}, text : {<<>>},
          mtime : {0}]
    \cup [exists : {TRUE}, mode : {"ok"}, text : Texts, mtime : Mtimes]

\* datetime.now(timezone.utc)
Nows ==
    {[ticks |-> Midnight(2024, 1, 10) + k, aware |-> TRUE] : k \in 0..NowSpan}

Idx == 1..Len(TARGETS)

(* ---------------------------------------------------------------------- *)
(* main                                                                   *)
(* ---------------------------------------------------------------------- *)
NoTime == [ticks |-> 0, aware |-> TRUE]

HEADER == "STALE files detected:"

SUCCESS == "All target files are fresh enough."

MISSING == "missing"

\* f'>{MAX_AGE_DAYS}d old'
TooOld == ">" \o ToString(MAX_AGE_DAYS) \o "d old"

\* timedelta(days=MAX_AGE_DAYS)
MaxAge == MAX_AGE_DAYS * TicksPerDay

\* a - b on datetimes: a timedelta, or TypeError when exactly one is naive
Sub(a, b) ==
    IF a.aware = b.aware THEN [delta |-> a.ticks - b.ticks]
    ELSE [error |-> "TypeError"]

\* line 41
Age(n, l) ==
    IF l.aware THEN Sub(n, l) ELSE Sub(n, [l EXCEPT !.aware = TRUE])

\* mutant of IsStale: >= in place of >
IsStale_AtLeast(age) == age.delta >= MaxAge

\* line 42
IsStale(age) == age.delta > MaxAge

\* mutant of ReportLines: the entries are printed last to first
RECURSIVE ReportLines_Reversed(_)
ReportLines_Reversed(s) ==
    IF s = <<>> THEN <<>>
    ELSE ReportLines_Reversed(Tail(s))
         \o <<"- " \o Head(s)[1] \o ": " \o Head(s)[2]>>

\* lines 46-47: one line per entry of the list, in list order
RECURSIVE ReportLines(_)
ReportLines(s) ==
    IF s = <<>> THEN <<>>
    ELSE <<"- " \o Head(s)[1] \o ": " \o Head(s)[2]>> \o ReportLines(Tail(s))

Init ==
    /\ fs \in [Idx -> Files]
    /\ now = NoTime
    /\ pc = "start"
    /\ i = 1
    /\ stale = <<>>
    /\ last = NoTime
    /\ out = <<>>
    /\ exitStatus = -1
    /\ err = "none"
    /\ checked = [t \in Idx |-> "unchecked"]
    /\ reads = [t \in Idx |-> 0]
    /\ stats = [t \in Idx |-> 0]
    /\ lastOf = [t \in Idx |-> NoTime]
    /\ visited = <<>>

\* an exception nobody catches: traceback on stderr, exit status 1,
\* nothing more on stdout
Raise(e) ==
    /\ pc' = "crashed"
    /\ err' = e
    /\ exitStatus' = 1
    /\ UNCHANGED <<fs, now, i, stale, last, out, lastOf, visited>>

\* lines 34-35
Begin ==
    /\ pc = "start"
    /\ \E n \in Nows : now' = n
    /\ stale' = <<>>
    /\ i' = 1
    /\ pc' = "loop"
    /\ UNCHANGED <<fs, last, out, exitStatus, err, checked, reads, stats,
                   lastOf, visited>>

\* mutant of CheckExists: break in place of the continue of line 39
CheckExists_Break ==
    /\ pc = "loop"
    /\ i <= Len(TARGETS)
    /\ visited' = Append(visited, i)
    /\ IF ~fs[i].exists
       THEN /\ stale' = Append(stale, <<TARGETS[i], MISSING>>)
            /\ checked' = [checked EXCEPT ![i] = "absent"]
            /\ i' = Len(TARGETS) + 1
            /\ pc' = "loop"
       ELSE /\ checked' = [checked EXCEPT ![i] = "present"]
            /\ UNCHANGED <<stale, i>>
            /\ pc' = "read"
    /\ UNCHANGED <<fs, now, last, out, exitStatus, err, reads, stats, lastOf>>

\* mutant of CheckExists: the continue of line 39 is lost, so a missing
\* target is recorded and then handed to get_last_updated
CheckExists_NoContinue ==
    /\ pc = "loop"
    /\ i <= Len(TARGETS)
    /\ visited' = Append(visited, i)
    /\ IF ~fs[i].exists
       THEN /\ stale' = Append(stale, <<TARGETS[i], MISSING>>)
            /\ checked' = [checked EXCEPT ![i] = "absent"]
       ELSE /\ checked' = [checked EXCEPT ![i] = "present"]
            /\ stale' = stale
    /\ i' = i
    /\ pc' = "read"
    /\ UNCHANGED <<fs, now, last, out, exitStatus, err, reads, stats, lastOf>>

\* lines 36-39: next target of the for loop and its existence test
CheckExists ==
    /\ pc = "loop"
    /\ i <= Len(TARGETS)
    /\ visited' = Append(visited, i)
    /\ IF ~fs[i].exists
       THEN /\ stale' = Append(stale, <<TARGETS[i], MISSING>>)
            /\ checked' = [checked EXCEPT ![i] = "absent"]
            /\ i' = i + 1
            /\ pc' = "loop"
       ELSE /\ checked' = [checked EXCEPT ![i] = "present"]
            /\ UNCHANGED <<stale, i>>
            /\ pc' = "read"
    /\ UNCHANGED <<fs, now, last, out, exitStatus, err, reads, stats, lastOf>>

\* mutant of ReadText: a failing read_text is caught and reported as a
\* violation of the target
ReadText_Caught ==
    /\ pc = "read"
    /\ reads' = [reads EXCEPT ![i] = @ + 1]
    /\ UNCHANGED <<checked, stats>>
    /\ IF ReadError(fs[i]) # "none"
       THEN /\ stale' = Append(stale, <<TARGETS[i], MISSING>>)
            /\ i' = i + 1
            /\ pc' = "loop"
            /\ UNCHANGED <<fs, now, last, out, exitStatus, err, lastOf,
                           visited>>
       ELSE LET m == Marker(fs[i].text) IN
            /\ IF IsDateTime(m)
               THEN last' = m /\ pc' = "eval"
               ELSE last' = last /\ pc' = "stat"
            /\ UNCHANGED <<fs, now, i, stale, out, exitStatus, err, lastOf,
                           visited>>

\* mutant of ReadText: no try/except around fromisoformat
ReadText_NoTry ==
    /\ pc = "read"
    /\ reads' = [reads EXCEPT ![i] = @ + 1]
    /\ UNCHANGED <<checked, stats>>
    /\ IF ReadError(fs[i]) # "none"
       THEN Raise(ReadError(fs[i]))
       ELSE LET m == Marker(fs[i].text) IN
            IF Search(fs[i].text) # NoMatch /\ ~IsDateTime(m)
            THEN Raise(m.error)
            ELSE /\ IF IsDateTime(m)
                    THEN last' = m /\ pc' = "eval"
                    ELSE last' = last /\ pc' = "stat"
                 /\ UNCHANGED <<fs, now, i, stale, out, exitStatus, err,
                                lastOf, visited>>

\* lines 18-28: read_text, search, parse
ReadText ==
    /\ pc = "read"
    /\ reads' = [reads EXCEPT ![i] = @ + 1]
    /\ UNCHANGED <<checked, stats>>
    /\ IF ReadError(fs[i]) # "none"
       THEN Raise(ReadError(fs[i]))
       ELSE LET m == Marker(fs[i].text) IN
            /\ IF IsDateTime(m)
               THEN last' = m /\ pc' = "eval"
               ELSE last' = last /\ pc' = "stat"
            /\ UNCHANGED <<fs, now, i, stale, out, exitStatus, err, lastOf,
                           visited>>

\* line 30: the mtime fallback
StatMtime ==
    /\ pc = "stat"
    /\ stats' = [stats EXCEPT ![i] = @ + 1]
    /\ UNCHANGED <<checked, reads>>
    /\ IF ~fs[i].exists
       THEN Raise("FileNotFoundError")
       ELSE /\ last' = FromTimestamp(fs[i].mtime)
            /\ pc' = "eval"
            /\ UNCHANGED <<fs, now, i, stale, out, exitStatus, err, lastOf,
                           visited>>

\* lines 40-43: age and the staleness test
Evaluate ==
    /\ pc = "eval"
    /\ UNCHANGED <<checked, reads, stats>>
    /\ LET age == Age(now, last) IN
       IF "error" \in DOMAIN age
       THEN Raise(age.error)
       ELSE /\ stale' = IF IsStale(age)
                        THEN Append(stale, <<TARGETS[i], TooOld>>)
                        ELSE stale
            /\ lastOf' = [lastOf EXCEPT ![i] = last]
            /\ i' = i + 1
            /\ pc' = "loop"
            /\ UNCHANGED <<fs, now, last, out, exitStatus, err, visited>>

\* mutant of Report: sys.exit(1) of line 48 is lost, so the run falls
\* through to line 49
Report_NoExit ==
    /\ pc = "loop"
    /\ i > Len(TARGETS)
    /\ out' = (IF stale # <<>> THEN out \o <<HEADER>> \o ReportLines(stale)
                ELSE out) \o <<SUCCESS>>
    /\ exitStatus' = 0
    /\ pc' = "done"
    /\ UNCHANGED <<fs, now, i, stale, last, err, checked, reads, stats,
                   lastOf, visited>>

\* lines 44-49
Report ==
    /\ pc = "loop"
    /\ i > Len(TARGETS)
    /\ IF stale # <<>>
       THEN /\ out' = out \o <<HEADER>> \o ReportLines(stale)
            /\ exitStatus' = 1
       ELSE /\ out' = Append(out, SUCCESS)
            /\ exitStatus' = 0
    /\ pc' = "done"
    /\ UNCHANGED <<fs, now, i, stale, last, err, checked, reads, stats,
                   lastOf, visited>>

\* another process removes a target while main is running
EnvRemove ==
    /\ pc \in {"loop", "read", "stat", "eval"}
    /\ \E t \in Idx :
          /\ fs[t].exists
          /\ fs' = [fs EXCEPT ![t].exists = FALSE]
    /\ UNCHANGED <<now, pc, i, stale, last, out, exitStatus, err, checked,
                   reads, stats, lastOf, visited>>

Next ==
    \/ Begin
    \/ CheckExists
    \/ ReadText
    \/ StatMtime
    \/ Evaluate
    \/ Report

Spec == Init /\ [][Next]_vars

NextEnv ==
    \/ Next
    \/ EnvRemove

SpecEnv == Init /\ [][NextEnv]_vars

(* ---------------------------------------------------------------------- *)
(* Claims                                                                 *)
(* ---------------------------------------------------------------------- *)
\* positions of the entries of the violation list that name target t
EntriesOf(t) == {k \in 1..Len(stale) : stale[k][1] = TARGETS[t]}

\* the for loop is past target t
Processed(t) == t < i

InOut(line) == \E k \in 1..Len(out) : out[k] = line

\* C1: once main has processed all targets, it exits with status 1 and the
\* header 'STALE files detected:' iff the violation list is non-empty, and
\* with status 0 and exactly the one line 'All target files are fresh
\* enough.' iff the list is empty; the success line and the failure report
\* are never both printed.
C1_ExitMatchesViolations ==
    /\ pc = "done" =>
         /\ exitStatus \in {0, 1}
         /\ (stale # <<>>) <=>
              (exitStatus = 1 /\ out # <<>> /\ out[1] = "STALE files detected:")
         /\ (stale = <<>>) <=>
              (exitStatus = 0 /\ out = <<"All target files are fresh enough.">>)
    /\ ~(InOut("All target files are fresh enough.")
         /\ InOut("STALE files detected:"))
    /\ pc \notin {"done", "crashed"} => out = <<>> /\ exitStatus = -1

\* a finished run with one missing and one stale target
C1_Witness ==
    /\ pc = "done"
    /\ exitStatus = 1
    /\ stale = <<<<TARGETS[1], "missing">>, <<TARGETS[2], ">7d old">>>>

C3_StaleIffOlderThanSevenDays ==
    /\ err # "TypeError"
    /\ \A t \in Idx :
         (Processed(t) /\ checked[t] = "present") =>
            ((\E k \in EntriesOf(t) : stale[k][2] = ">7d old")
               <=> (now.ticks - lastOf[t].ticks > 7 * TicksPerDay))

\* first target: naive timestamp exactly 7 days old, fresh; second target:
\* timestamp later than now, fresh
C3_Witness ==
    /\ pc = "done"
    /\ ~lastOf[1].aware
    /\ now.ticks - lastOf[1].ticks = 7 * TicksPerDay
    /\ checked[2] = "present"
    /\ lastOf[2].ticks > now.ticks
    /\ stale = <<>>

\* the violation stale[k] says about a present target exactly what its own
\* file and the clock decide
OwnOutcome(t) ==
    (EntriesOf(t) # {}) <=> IsStale(Age(now, GetLastUpdated(fs[t])))

\* C4: a target that does not exist when main checks it gets exactly the
\* entry (path, 'missing'), get_last_updated is never called for it (no
\* read_text, no stat), and every remaining target is still processed, with
\* the outcome its own file decides.
C4_MissingIsRecordedAndSkipped ==
    /\ \A t \in Idx :
         checked[t] = "absent" =>
            /\ reads[t] = 0
            /\ stats[t] = 0
            /\ \E k \in 1..Len(stale) :
                  /\ stale[k] = <<TARGETS[t], "missing">>
                  /\ EntriesOf(t) = {k}
            /\ \A u \in Idx :
                  (u # t /\ Processed(u) /\ checked[u] = "present")
                     => OwnOutcome(u)
    /\ pc = "done" => visited = <<1, 2>>

\* the first target is missing and the second one was resolved and found
\* stale
C4_Witness ==
    /\ pc = "done"
    /\ checked[1] = "absent"
    /\ checked[2] = "present"
    /\ reads[2] = 1
    /\ stale = <<<<TARGETS[1], "missing">>, <<TARGETS[2], ">7d old">>>>

\* C5: when a target exists and reading its content fails, the failure is
\* no violation of that target: the run aborts at that target, later targets
\* are not processed, and nothing is printed on standard output, neither
\* the report of the violations collected so far nor the success line.
C5_ReadFailureAborts ==
    \A t \in Idx :
       (checked[t] = "present" /\ reads[t] > 0 /\ fs[t].mode # "ok") =>
          /\ pc = "crashed"
          /\ err \in {"PermissionError", "UnicodeDecodeError"}
          /\ exitStatus = 1
          /\ i = t
          /\ EntriesOf(t) = {}
          /\ \A u \in Idx : u > t => checked[u] = "unchecked" /\ reads[u] = 0
          /\ out = <<>>

\* the second target is unreadable after a violation of the first one was
\* collected
C5_Witness ==
    /\ pc = "crashed"
    /\ err = "PermissionError"
    /\ i = 2
    /\ stale = <<<<TARGETS[1], "missing">>>>

\* target t was read and its timestamp resolved
Resolved(t) == Processed(t) /\ checked[t] = "present"

DateOf(d) == Midnight(d[1], d[2], d[3])

\* C6 as stated: for every valid calendar date d, text with 'Created: d' in
\* ISO form, text with 'Last Updated: d' in ISO form and text with the
\* localized label and d in year/month/day form all resolve to d, not to the
\* modification time.
C6_AsStated ==
    \A t \in Idx : \A d \in ValidDates :
       (Resolved(t) /\ fs[t].text \in {IsoText(LABEL_CREATED, d),
                                       IsoText(LABEL_EN, d),
                                       JaText(LABEL_JA, d)}) =>
          /\ lastOf[t].ticks = DateOf(d)
          /\ stats[t] = 0

\* C6 amended: for every valid calendar date d, text with either recognised
\* label (the localized one or 'Last Updated') followed by d in either
\* separator style resolves to d, not to the modification time; the English
\* word 'Created' is no recognised label, and such text resolves to the
\* modification time.
C6_LabelsAndStylesAgree ==
    \A t \in Idx : \A d \in ValidDates :
       /\ (Resolved(t) /\ fs[t].text \in MarkerTexts(d)) =>
             /\ lastOf[t].ticks = DateOf(d)
             /\ stats[t] = 0
       /\ (Resolved(t) /\ fs[t].text \in CreatedTexts) =>
             /\ lastOf[t] = FromTimestamp(fs[t].mtime)
             /\ stats[t] = 1

\* the same date behind the localized label in year/month/day form in one
\* target and behind 'Last Updated' in ISO form in the other
C6_Witness ==
    /\ pc = "done"
    /\ fs[1].text = JaText(LABEL_JA, <<2024, 1, 3>>)
    /\ fs[2].text = IsoText(LABEL_EN, <<2024, 1, 3>>)
    /\ lastOf[1] = lastOf[2]
    /\ lastOf[1].ticks = Midnight(2024, 1, 3)

\* texts whose first label+date match is no calendar date
InvalidFirstTexts ==
    {IsoText(LABEL_EN, d) : d \in InvalidDates}
    \cup {JaText(LABEL_JA, d) : d \in InvalidDates}
    \cup {TwoText(<<2024, 13, 40>>, <<2024, 1, 12>>),
          TwoText(<<2023, 2, 29>>, <<2024, 1, 1>>)}

ReportVocabulary ==
    {"STALE files detected:", "All target files are fresh enough."}
    \cup {"- " \o TARGETS[t] \o ": " \o r :
             t \in Idx, r \in {"missing", ">7d old"}}

\* C7: when the first label+date match of a file is no valid calendar date,
\* get_last_updated does not raise and returns the modification time as a
\* UTC-aware timestamp; fresh or stale is decided by the modification time
\* alone, and nothing printed mentions the parse failure.
C7_InvalidDateFallsBackToMtime ==
    /\ err # "ValueError"
    /\ \A t \in Idx :
         (checked[t] = "present" /\ reads[t] > 0
            /\ fs[t].text \in InvalidFirstTexts) =>
            /\ pc = "crashed" => i # t
            /\ Processed(t) =>
                 /\ stats[t] = 1
                 /\ lastOf[t].aware
                 /\ lastOf[t].ticks = Midnight(1970, 1, 1) + fs[t].mtime
                 /\ (EntriesOf(t) # {}) <=>
                       (now.ticks - (Midnight(1970, 1, 1) + fs[t].mtime)
                          > 7 * TicksPerDay)
                 /\ \A k \in EntriesOf(t) : stale[k][2] = ">7d old"
    /\ \A k \in 1..Len(out) : out[k] \in ReportVocabulary

\* 9999-99-99 in the first target with an old mtime, 2023-02-29 in the
\* second one with a recent mtime
C7_Witness ==
    /\ pc = "done"
    /\ fs[1].text = IsoText(LABEL_EN, <<9999, 99, 99>>)
    /\ fs[2].text = JaText(LABEL_JA, <<2023, 2, 29>>)
    /\ stale = <<<<TARGETS[1], ">7d old">>>>

\* texts whose first label+date match is the valid date d
FirstValidTexts(d) ==
    MarkerTexts(d)
    \cup {x \in {TwoText(<<2024, 1, 12>>, <<2024, 1, 1>>),
                 TwoText(<<2024, 1, 1>>, <<2024, 1, 12>>)} :
            x = TwoText(d, <<2024, 1, 1>>) \/ x = TwoText(d, <<2024, 1, 12>>)}
    \cup {x \in {LabelOnlyText(<<2024, 1, 1>>, <<2024, 1, 12>>)} :
            d = <<2024, 1, 1>>}

\* texts with no match at all
NoMatchTexts == {Prose} \cup CreatedTexts

\* C8: the resolved timestamp depends on the first label+date match only:
\* when it is a valid date the result is that date at midnight UTC, whatever
\* the modification time and the later matches; when there is no match or
\* the first match is invalid the result is the modification time, even
\* with a valid date in a later match.
C8_FirstMatchDecides ==
    \A t \in Idx :
       Resolved(t) =>
          /\ \A d \in ValidDates :
                fs[t].text \in FirstValidTexts(d) =>
                   /\ lastOf[t].ticks = DateOf(d)
                   /\ stats[t] = 0
                   /\ Age(now, lastOf[t]) = [delta |-> now.ticks - DateOf(d)]
          /\ fs[t].text \in (NoMatchTexts \cup InvalidFirstTexts) =>
                /\ lastOf[t] = FromTimestamp(fs[t].mtime)
                /\ stats[t] = 1
          /\ fs[t].text \in
                (NoMatchTexts \cup InvalidFirstTexts
                   \cup UNION {FirstValidTexts(d) : d \in ValidDates})

\* first target: a fresh date first and a stale one later; second target: an
\* invalid date first and a valid one later
C8_Witness ==
    /\ pc = "done"
    /\ fs[1].text = TwoText(<<2024, 1, 12>>, <<2024, 1, 1>>)
    /\ lastOf[1].ticks = Midnight(2024, 1, 12)
    /\ fs[2].text = TwoText(<<2024, 13, 40>>, <<2024, 1, 12>>)
    /\ lastOf[2] = FromTimestamp(fs[2].mtime)

\* C9: a path that does not exist is a 'missing' violation and never a
\* crash, also when the target is removed after main's existence test and
\* before get_last_updated reads its content or its mtime.
C9_RemovalIsNeverACrash ==
    /\ err # "FileNotFoundError"
    /\ \A t \in Idx :
         (checked[t] = "present" /\ reads[t] > 0 /\ ~fs[t].exists
            /\ lastOf[t] = NoTime) =>
            pc # "crashed"

\* the violating targets from t on, in the order of TARGETS
RECURSIVE ExpectedLines(_)
ExpectedLines(t) ==
    IF t > Len(TARGETS) THEN <<>>
    ELSE (IF EntriesOf(t) = {} THEN <<>>
          ELSE IF checked[t] = "absent"
               THEN <<"- " \o TARGETS[t] \o ": missing">>
               ELSE <<"- " \o TARGETS[t] \o ": >7d old">>)
         \o ExpectedLines(t + 1)

\* C10: the targets are processed one after the other, each once, in the
\* order of TARGETS, and the failure report lists the violations in that
\* order: after the header exactly one line '- <path>: <reason>' per
\* violating target, the reason literally 'missing' or '>7d old', and no
\* line for a fresh target.
C10_DeclaredOrder ==
    /\ Len(visited) <= Len(TARGETS)
    /\ \A k \in 1..Len(visited) : visited[k] = k
    /\ Len(visited) = IF pc \in {"start", "loop", "done"} THEN i - 1 ELSE i
    /\ \A k, l \in 1..Len(stale) :
         k < l => \E t, u \in Idx :
                     t < u /\ stale[k][1] = TARGETS[t]
                           /\ stale[l][1] = TARGETS[u]
    /\ (pc = "done" /\ stale # <<>>) =>
          out = <<"STALE files detected:">> \o ExpectedLines(1)

\* both targets violate: the first is stale, the second is missing
C10_Witness ==
    /\ pc = "done"
    /\ out = <<"STALE files detected:",
               "- .github/copilot-instructions.md: >7d old",
               "- docs/operation-scenarios.md: missing">>

====
